---------------------------- MODULE Spec2Model ----------------------------
(***************************************************************************)
(* Model of the content-curation pipeline: the subreddit-listing fetcher   *)
(* (reddit_scraper.py), the wiki fetcher (topic_fetcher.py), the           *)
(* generation client and prompt composer (service.py) and the run          *)
(* orchestrator (run.py).                                                  *)
(*                                                                         *)
(* The program is sequential.  Every remote call is one step: the request  *)
(* is appended to `log`, the remote's answer is chosen nondeterministically*)
(* and the code between this call and the next one is applied to it.       *)
(*                                                                         *)
(* Texts whose length the code inspects are tuples of one-character        *)
(* strings; messages are tuples of message segments, so that wrapping an   *)
(* exception (f"prefix: {str(e)}") is the concatenation of a prefix.       *)
(***************************************************************************)
EXTENDS Integers, Sequences, FiniteSets, TLC

VARIABLES
    pc,              \* position of the program
    call,            \* the entry point that was invoked
    log,             \* remote requests issued (and pacing sleeps), in order
    response,        \* the last remote response received
    raised,          \* the exception that left the entry point, or NoError
    returned,        \* the value the entry point returned, or NoValue
    subreddit_name,  \* reddit_scraper arguments and locals
    limit,
    time_filter,
    subreddit_info,
    topic,           \* get_topic_content arguments and locals
    num_articles,
    include_related,
    search_results,
    articles,
    i,
    article,
    pageid,          \* get_related_articles arguments and locals
    related_limit,
    relevant_links,
    related_articles,
    k,               \* position of the loop over relevant_links, from 1
    content_type,    \* run parameters of main
    tone,
    length,
    prompt,          \* the text handed to generate_content
    files            \* files written by main, in order

redditVars == <<subreddit_name, limit, time_filter, subreddit_info>>
topicVars == <<topic, num_articles, include_related, search_results, i, article>>
relatedVars == <<pageid, related_limit, relevant_links, related_articles, k>>
runVars == <<content_type, tone, length, prompt>>
vars == <<pc, call, log, response, raised, returned, redditVars, topicVars, articles,
          relatedVars, runVars, files>>

-----------------------------------------------------------------------------
(* Bounds of the model *)

MaxOver == 1        \* texts are up to this many characters over a cap
MaxPosts == 2       \* children in one top.json listing
MaxHits == 5        \* pages the wiki search can rank for the topic
MaxArticles == 3    \* the num_articles argument
MaxLinks == 4       \* outbound links in one answer

-----------------------------------------------------------------------------
(* Python values *)

NoError == [class |-> "", msg |-> <<>>]
NoValue == <<>>
NoResponse == <<>>
EmptyDict == [x \in {} |-> 0]

\* dict.get(key, default)
Get(d, key, default) == IF key \in DOMAIN d THEN d[key] ELSE default

Without(d, key) == [x \in DOMAIN d \ {key} |-> d[x]]

Exc(class, msg) == [class |-> class, msg |-> msg]
Raise(e) == [ok |-> FALSE, value |-> NoValue, err |-> e]
Return(v) == [ok |-> TRUE, value |-> v, err |-> NoError]

\* Class hierarchy of the exceptions the collaborator libraries raise.
\* requests >= 2.27 raises its own JSONDecodeError, which is both a
\* RequestException and a json.JSONDecodeError; older versions raise
\* json.JSONDecodeError, a ValueError.
RequestException == {"ConnectionError", "HTTPError", "RequestsJSONDecodeError"}
JSONDecodeError == {"JSONDecodeError", "RequestsJSONDecodeError"}
ValueError == JSONDecodeError

\* A text of n characters.
Text(n) == [j \in 1..n |-> IF j % 3 = 1 THEN "a" ELSE IF j % 3 = 2 THEN "b" ELSE "c"]

\* s[:n]
Prefix(s, n) == SubSeq(s, 1, IF Len(s) < n THEN Len(s) ELSE n)

-----------------------------------------------------------------------------
(* Remote responses *)

\* requests.get raised before any response arrived
ConnFailure == [raises |-> "ConnectionError", status_code |-> 0,
                json_raises |-> "", json |-> EmptyDict]
\* a response with an error status
HttpStatus(code) == [raises |-> "", status_code |-> code,
                     json_raises |-> "", json |-> EmptyDict]
\* a 200 response whose body is not JSON
BadJson(class) == [raises |-> "", status_code |-> 200,
                   json_raises |-> class, json |-> EmptyDict]
\* a 200 response with a JSON body
OkJson(j) == [raises |-> "", status_code |-> 200, json_raises |-> "", json |-> j]

JsonList == [is_dict |-> FALSE, items |-> EmptyDict]
JsonDict(d) == [is_dict |-> TRUE, items |-> d]

FailureResponses ==
    {ConnFailure, HttpStatus(404), HttpStatus(500)}
        \cup {BadJson(c) : c \in JSONDecodeError}
        \cup {OkJson(JsonList)}

-----------------------------------------------------------------------------
(* reddit_scraper.py *)

RedditScraperError(msg) == Exc("RedditScraperError", msg)

SubredditNames == {"python", "nosuchsub"}
TimeFilters == {"day", "week", "month", "year", "all", "hour", "Day", ""}
Limits == {1, 5}

AboutRequest(name) ==
    [endpoint |-> "about.json", subreddit |-> name, t |-> "-", limit |-> 0]
TopRequest(name, t, n) ==
    [endpoint |-> "top.json", subreddit |-> name, t |-> t, limit |-> n]

\* The 'data' object of an about.json answer, and answers that lack fields.
FullAbout ==
    [display_name |-> "Python", title |-> "Python", public_description |-> "News",
     subscribers |-> 1000, created_utc |-> 1200000000, over18 |-> FALSE]
AboutResponses ==
    FailureResponses
        \cup {OkJson(JsonDict([data |-> d])) :
                 d \in {FullAbout, Without(FullAbout, "display_name")}}
        \cup {OkJson(JsonDict(EmptyDict))}

\* The handlers of fetch_subreddit_info, in the order Python tries them.
fetch_subreddit_info_except(e) ==
    IF e.class \in RequestException
    THEN RedditScraperError(<<"Error fetching subreddit information: ">> \o e.msg)
    ELSE IF e.class \in JSONDecodeError \cup ValueError
    THEN RedditScraperError(<<"Error parsing subreddit data: ">> \o e.msg)
    ELSE RedditScraperError(<<"Unexpected error fetching subreddit info: ">> \o e.msg)

\* lines 33-44: the record built from a parsed about.json answer
subreddit_info_of(name, json) ==
    IF ~json.is_dict THEN Raise(Exc("AttributeError", <<"AttributeError">>))
    ELSE LET subreddit_data == Get(json.items, "data", EmptyDict)
         IN  Return([name |-> Get(subreddit_data, "display_name", name),
                     title |-> Get(subreddit_data, "title", ""),
                     description |-> Get(subreddit_data, "public_description", ""),
                     subscribers |-> Get(subreddit_data, "subscribers", 0),
                     created_utc |-> Get(subreddit_data, "created_utc", 0),
                     over18 |-> Get(subreddit_data, "over18", FALSE),
                     url |-> <<"https://www.reddit.com/r/", name, "/">>])

\* fetch_subreddit_info_try without the 404 check of line 28
fetch_subreddit_info_try_no404(name, resp) ==
    IF resp.raises # "" THEN Raise(Exc(resp.raises, <<resp.raises>>))
    ELSE IF resp.status_code >= 400 THEN Raise(Exc("HTTPError", <<"HTTPError">>))
    ELSE IF resp.json_raises # ""
    THEN Raise(Exc(resp.json_raises, <<resp.json_raises>>))
    ELSE subreddit_info_of(name, resp.json)

\* lines 26-44: the try block of fetch_subreddit_info on the answer to its request
fetch_subreddit_info_try(name, resp) ==
    IF resp.raises # "" THEN Raise(Exc(resp.raises, <<resp.raises>>))
    ELSE IF resp.status_code = 404
    THEN Raise(RedditScraperError(<<"Subreddit r/", name, " not found">>))
    ELSE IF resp.status_code >= 400 THEN Raise(Exc("HTTPError", <<"HTTPError">>))
    ELSE IF resp.json_raises # ""
    THEN Raise(Exc(resp.json_raises, <<resp.json_raises>>))
    ELSE subreddit_info_of(name, resp.json)

fetch_subreddit_info(name, resp) ==
    LET try == fetch_subreddit_info_try(name, resp)
    IN  IF try.ok THEN try ELSE Raise(fetch_subreddit_info_except(try.err))

valid_time_filters == {"day", "week", "month", "year", "all"}

TextCap == 2000
TruncatedMarker ==
    <<".", ".", ".", " ", "[", "t", "r", "u", "n", "c", "a", "t", "e", "d", "]">>
NoTextPlaceholder ==
    <<"[", "N", "o", " ", "t", "e", "x", "t", " ", "c", "o", "n", "t", "e", "n", "t",
      " ", "a", "v", "a", "i", "l", "a", "b", "l", "e", "]">>

\* A JSON string or null as the value of 'selftext'.
Str(s) == [null |-> FALSE, s |-> s]
Null == [null |-> TRUE, s |-> <<>>]
\* Python truthiness of such a value
Truthy(v) == ~v.null /\ Len(v.s) > 0

\* Lengths of the upstream self-texts: empty, short and around the cap.
SelfTextLens == {0, 1} \cup (TextCap..(TextCap + MaxOver))
SelfTexts == {Str(Text(n)) : n \in SelfTextLens} \cup {Null}

FullPost(st, is_self) ==
    [title |-> "A post", score |-> 10, selftext |-> st, is_self |-> is_self,
     permalink |-> "/r/x/comments/1/", author |-> "alice"]
UpstreamPosts ==
    {FullPost(st, b) : st \in SelfTexts, b \in BOOLEAN}
        \cup {Without(FullPost(Str(Text(n)), TRUE), "is_self") : n \in {0, TextCap + 1}}
        \cup {Without(FullPost(Null, b), "selftext") : b \in BOOLEAN}
        \cup {Without(FullPost(Str(Text(1)), FALSE), "author"), EmptyDict}

\* lines 89-91: the self-text of a post before the length check
selftext_default(post) ==
    LET selftext == Get(post, "selftext", Str(<<>>))
    IN  IF ~Truthy(selftext) /\ Get(post, "is_self", FALSE)
        THEN Str(NoTextPlaceholder)
        ELSE selftext

\* truncate_selftext with >= for >
truncate_selftext_ge(selftext) ==
    IF Len(selftext) >= TextCap
    THEN Prefix(selftext, TextCap) \o TruncatedMarker
    ELSE selftext

\* lines 93-94
truncate_selftext(selftext) ==
    IF Len(selftext) > TextCap
    THEN Prefix(selftext, TextCap) \o TruncatedMarker
    ELSE selftext

\* len(None) raises TypeError
post_raises(post) == selftext_default(post).null

\* lines 96-108, for a post whose self-text is a string (created_formatted,
\* the strftime rendering of created_utc, is left out of the record)
post_info(post, name) ==
    [title |-> Get(post, "title", ""),
     score |-> Get(post, "score", 0),
     selftext |-> truncate_selftext(selftext_default(post).s),
     permalink |-> <<"https://www.reddit.com", Get(post, "permalink", "")>>,
     is_self |-> Get(post, "is_self", FALSE),
     subreddit |-> name,
     author |-> Get(post, "author", "[deleted]")]

\* data.get('data', {}).get('children', [])
children_of(json) == Get(Get(json.items, "data", EmptyDict), "children", <<>>)

\* lines 76-83: the inner try around the top.json request
top_request_try(name, resp) ==
    IF resp.raises # "" \/ resp.status_code >= 400
           \/ resp.json_raises \in RequestException
    THEN Raise(RedditScraperError(
             <<"Error fetching posts from r/", name, ": ">> \o
             <<IF resp.raises # "" THEN resp.raises
               ELSE IF resp.status_code >= 400 THEN "HTTPError"
               ELSE resp.json_raises>>))
    ELSE IF resp.json_raises \in JSONDecodeError
    THEN Raise(RedditScraperError(<<"Error parsing Reddit data: ", resp.json_raises>>))
    ELSE Return(resp.json)

\* lines 85-114: the posts of a parsed listing
top_posts_of(name, t, json) ==
    IF ~json.is_dict THEN Raise(Exc("AttributeError", <<"AttributeError">>))
    ELSE LET children == children_of(json)
             post(j) == Get(children[j], "data", EmptyDict)
         IN  IF \E j \in 1..Len(children) : post_raises(post(j))
             THEN Raise(Exc("TypeError", <<"TypeError">>))
             ELSE IF Len(children) = 0
             THEN Raise(RedditScraperError(
                      <<"No posts found in r/", name, " with time filter '", t, "'">>))
             ELSE Return([j \in 1..Len(children) |-> post_info(post(j), name)])

\* lines 116-119: the handlers of get_subreddit_top_posts
get_subreddit_top_posts_except(name, e) ==
    IF e.class = "RedditScraperError" THEN e
    ELSE RedditScraperError(<<"Error fetching posts from r/", name, ": ">> \o e.msg)

Listings ==
    {<<>>} \cup UNION {[1..n -> {[data |-> p] : p \in UpstreamPosts}] : n \in 1..MaxPosts}
TopResponses ==
    FailureResponses
        \cup {OkJson(JsonDict([data |-> [children |-> c]])) : c \in Listings}
        \cup {OkJson(JsonDict(EmptyDict))}

-----------------------------------------------------------------------------
(* Entry points of reddit_scraper.py *)

Init ==
    /\ pc = "idle"
    /\ call = ""
    /\ log = <<>>
    /\ response = NoResponse
    /\ raised = NoError
    /\ returned = NoValue
    /\ subreddit_name = ""
    /\ limit = 0
    /\ time_filter = ""
    /\ subreddit_info = NoValue
    /\ topic = <<>>
    /\ num_articles = 0
    /\ include_related = FALSE
    /\ search_results = <<>>
    /\ articles = <<>>
    /\ i = 0
    /\ article = NoValue
    /\ pageid = 0
    /\ related_limit = 0
    /\ relevant_links = <<>>
    /\ related_articles = <<>>
    /\ k = 0
    /\ content_type = <<>>
    /\ tone = <<>>
    /\ length = <<>>
    /\ prompt = NoValue
    /\ files = <<>>

\* fetch_subreddit_info(name), called on its own
CallFetchSubredditInfo ==
    /\ pc = "idle"
    /\ \E name \in SubredditNames, resp \in AboutResponses :
          LET r == fetch_subreddit_info(name, resp)
          IN  /\ call' = "fetch_subreddit_info"
              /\ subreddit_name' = name
              /\ log' = Append(log, AboutRequest(name))
              /\ response' = resp
              /\ raised' = r.err
              /\ returned' = r.value
              /\ pc' = "done"
    /\ UNCHANGED <<limit, time_filter, subreddit_info>>
    /\ UNCHANGED <<topicVars, articles, relatedVars, runVars, files>>

\* time_filter_ok comparing case-insensitively
time_filter_ok_nocase(t) == t \in valid_time_filters \cup {"Day"}

\* line 66
time_filter_ok(t) == t \in valid_time_filters

\* get_subreddit_top_posts(name, n, t) up to its first remote call (lines 64-67)
CallGetSubredditTopPosts ==
    /\ pc = "idle"
    /\ \E name \in SubredditNames, n \in Limits, t \in TimeFilters :
          /\ call' = "get_subreddit_top_posts"
          /\ subreddit_name' = name
          /\ limit' = n
          /\ time_filter' = t
          /\ IF time_filter_ok(t)
             THEN /\ pc' = "fetch_info"
                  /\ UNCHANGED raised
             ELSE /\ pc' = "done"
                  /\ raised' = get_subreddit_top_posts_except(name,
                        RedditScraperError(<<"Invalid time filter: ", t,
                            ". Valid options are: ", "day, week, month, year, all">>))
    /\ UNCHANGED <<log, response, returned, subreddit_info>>
    /\ UNCHANGED <<topicVars, articles, relatedVars, runVars, files>>

\* line 69: the call of fetch_subreddit_info inside get_subreddit_top_posts
TopPostsFetchInfo ==
    /\ pc = "fetch_info"
    /\ \E resp \in AboutResponses :
          LET r == fetch_subreddit_info(subreddit_name, resp)
          IN  /\ log' = Append(log, AboutRequest(subreddit_name))
              /\ response' = resp
              /\ IF r.ok
                 THEN /\ subreddit_info' = r.value
                      /\ pc' = "fetch_top"
                      /\ UNCHANGED raised
                 ELSE /\ raised' = get_subreddit_top_posts_except(subreddit_name, r.err)
                      /\ pc' = "done"
                      /\ UNCHANGED subreddit_info
    /\ UNCHANGED <<call, returned, subreddit_name, limit, time_filter>>
    /\ UNCHANGED <<topicVars, articles, relatedVars, runVars, files>>

\* line 71: the URL of the top-items request
top_request(name, t, n) == TopRequest(name, t, n)

\* lines 71-114: the top.json request and the normalisation of its posts
TopPostsFetchTop ==
    /\ pc = "fetch_top"
    /\ \E resp \in TopResponses :
          LET q == top_request_try(subreddit_name, resp)
              r == IF q.ok THEN top_posts_of(subreddit_name, time_filter, q.value) ELSE q
          IN  /\ log' = Append(log, top_request(subreddit_name, time_filter, limit))
              /\ response' = resp
              /\ IF r.ok
                 THEN /\ returned' = [posts |-> r.value, subreddit_info |-> subreddit_info]
                      /\ UNCHANGED raised
                 ELSE /\ raised' = get_subreddit_top_posts_except(subreddit_name, r.err)
                      /\ UNCHANGED returned
              /\ pc' = "done"
    /\ UNCHANGED <<call, subreddit_name, limit, time_filter, subreddit_info>>
    /\ UNCHANGED <<topicVars, articles, relatedVars, runVars, files>>

NextReddit ==
    \/ CallFetchSubredditInfo
    \/ CallGetSubredditTopPosts
    \/ TopPostsFetchInfo
    \/ TopPostsFetchTop

SpecReddit == Init /\ [][NextReddit]_vars

-----------------------------------------------------------------------------
(* Properties of reddit_scraper.py, checked under SpecReddit *)

\* The error kinds of the specification, read off the message of the
\* RedditScraperError: the kind is the message the fetcher raised it with,
\* whatever prefixes later handlers put before it.
EndsWith(msg, tail) ==
    Len(msg) >= Len(tail) /\ SubSeq(msg, Len(msg) - Len(tail) + 1, Len(msg)) = tail
IsSourceNotFound(e, name) ==
    e.class = "RedditScraperError" /\ EndsWith(e.msg, <<"Subreddit r/", name, " not found">>)
IsInvalidParameter(e, t) ==
    /\ e.class = "RedditScraperError"
    /\ Len(e.msg) >= 4
    /\ SubSeq(e.msg, Len(e.msg) - 3, Len(e.msg) - 2) = <<"Invalid time filter: ", t>>

TopRequests == {j \in 1..Len(log) : log[j].endpoint = "top.json"}

\* C1: get_subreddit_top_posts issues the top-items request with the time
\* filter it was given when that is one of day, week, month, year, all (the
\* request follows the collection-info request once that one succeeded); for
\* any other string it raises the invalid-time-filter error and no request,
\* neither about.json nor top.json, is made.
C1_TimeFilterValidated ==
    call = "get_subreddit_top_posts" =>
        IF time_filter \in {"day", "week", "month", "year", "all"}
        THEN /\ \A j \in TopRequests : log[j].t = time_filter
             /\ pc = "done" /\ subreddit_info # NoValue
                    => Len(log) = 2 /\ log[2].endpoint = "top.json"
                                    /\ log[2].subreddit = subreddit_name
        ELSE /\ pc = "done"
             /\ log = <<>>
             /\ returned = NoValue
             /\ IsInvalidParameter(raised, time_filter)

C1_Witness ==
    /\ call = "get_subreddit_top_posts"
    /\ pc = "done"
    /\ time_filter = "Day"
    /\ log = <<>>
    /\ raised.class = "RedditScraperError"

\* The last request was about.json and the remote answered it with 404.
AboutAnswered404 ==
    /\ log # <<>>
    /\ log[Len(log)].endpoint = "about.json"
    /\ response.raises = ""
    /\ response.status_code = 404

\* C2: when about.json answers 404, fetch_subreddit_info raises the
\* subreddit-not-found error, get_subreddit_top_posts for that name raises
\* the same error, and in that call about.json is the only request made.
C2_NotFoundStopsTopItems ==
    AboutAnswered404 =>
        /\ pc = "done"
        /\ returned = NoValue
        /\ IsSourceNotFound(raised, subreddit_name)
        /\ raised = fetch_subreddit_info(subreddit_name, response).err
        /\ log = <<AboutRequest(subreddit_name)>>

C2_Witness ==
    /\ call = "get_subreddit_top_posts"
    /\ AboutAnswered404
    /\ subreddit_name = "nosuchsub"
    /\ raised.class = "RedditScraperError"

\* The upstream post behind the i-th returned record.
UpstreamPost(j) == Get(children_of(response.json)[j], "data", EmptyDict)
UpstreamSelfText(j) == Get(UpstreamPost(j), "selftext", Str(<<>>))
ReturnedPosts ==
    IF call = "get_subreddit_top_posts" /\ pc = "done" /\ raised = NoError
    THEN returned.posts ELSE <<>>

\* C9 as stated: over 2000 characters the record's self-text is the first
\* 2000 characters and the marker; otherwise (empty and missing included) it
\* is the upstream self-text unchanged.
C9_AsStated ==
    \A j \in 1..Len(ReturnedPosts) :
        LET up == UpstreamSelfText(j).s
        IN  ReturnedPosts[j].selftext =
                IF Len(up) > 2000 THEN SubSeq(up, 1, 2000) \o TruncatedMarker ELSE up

\* C9, amended: over 2000 characters the record's self-text is the first 2000
\* characters and the marker; a non-empty self-text of at most 2000
\* characters is unchanged; an empty, null or missing self-text becomes the
\* placeholder when the post is a self post and the empty text otherwise.
C9_SelfTextNormalised ==
    \A j \in 1..Len(ReturnedPosts) :
        LET up == UpstreamSelfText(j).s
            self == "is_self" \in DOMAIN UpstreamPost(j) /\ UpstreamPost(j).is_self
        IN  ReturnedPosts[j].selftext =
                IF Len(up) > 2000 THEN SubSeq(up, 1, 2000) \o TruncatedMarker
                ELSE IF Len(up) > 0 THEN up
                ELSE IF self THEN NoTextPlaceholder
                ELSE <<>>

C9_Witness ==
    /\ Len(ReturnedPosts) = 2
    /\ Len(UpstreamSelfText(1).s) = 2001
    /\ Len(ReturnedPosts[1].selftext) = 2015
    /\ Len(UpstreamSelfText(2).s) = 2000
    /\ ReturnedPosts[2].selftext = UpstreamSelfText(2).s

\* C7: an error the fetcher raised itself (subreddit not found, invalid time
\* filter, no posts found) leaves the entry point as it was raised, with its
\* original message and no "unexpected error" prefix.
C7_OwnErrorsPassUnchanged ==
    /\ AboutAnswered404 =>
           raised = RedditScraperError(<<"Subreddit r/", subreddit_name, " not found">>)
    /\ call = "get_subreddit_top_posts" /\ time_filter \notin valid_time_filters =>
           raised = RedditScraperError(<<"Invalid time filter: ", time_filter,
                        ". Valid options are: ", "day, week, month, year, all">>)
    /\ call = "get_subreddit_top_posts" /\ pc = "done" /\ Len(log) = 2
            /\ response.raises = "" /\ response.status_code = 200
            /\ response.json_raises = "" /\ response.json.is_dict
            /\ children_of(response.json) = <<>> =>
           raised = RedditScraperError(<<"No posts found in r/", subreddit_name,
                        " with time filter '", time_filter, "'">>)

-----------------------------------------------------------------------------
(* topic_fetcher.py *)

ContentFetcherError(msg) == Exc("ContentFetcherError", msg)

\* Titles and topics are tuples of tokens: `"x" in title` is tested on tokens.
Contains(title, token) == \E n \in 1..Len(title) : title[n] = token
\* str.replace(token, "") on tokens
Remove(text, tokens) == SelectSeq(text, LAMBDA x : x \notin tokens)

\* One request of the wiki fetcher, or one pacing sleep, with whether the
\* fetcher function that issued it raised.
WikiEvent(fn, srsearch, srlimit, pageids, failed) ==
    [fn |-> fn, srsearch |-> srsearch, srlimit |-> srlimit, pageids |-> pageids,
     raised |-> failed]
Sleep == WikiEvent("time.sleep", <<>>, 0, 0, FALSE)

\* The remote's pages.  The search for the topic ranks pages 11, 12, ...;
\* the pages the links lead to are 21 and 22.
TopicRanking == [r \in 1..MaxHits |-> 10 + r]
LinkedTitles == {<<"Qubit">>, <<"Bit">>}
PageOfTitle(title) == IF title = <<"Qubit">> THEN 21 ELSE 22
PageTitle(p) ==
    IF p = 21 THEN <<"Qubit">> ELSE IF p = 22 THEN <<"Bit">> ELSE <<"Article ", ToString(p)>>

\* An element of query.search for page p
SearchResult(p) ==
    [title |-> PageTitle(p), pageid |-> p,
     snippet |-> <<"<span class=\"searchmatch\">", "Quantum", "</span>", " bits">>,
     score |-> 1, size |-> 100 * p, wordcount |-> 10 * p,
     timestamp |-> "2024-01-01T00:00:00Z"]

SearchJson(hits) == JsonDict([query |-> [search |-> hits]])

\* lines 46-60: one search hit
search_result(result) ==
    [title |-> Get(result, "title", <<>>),
     pageid |-> Get(result, "pageid", 0),
     snippet |-> Remove(Get(result, "snippet", <<>>),
                        {"<span class=\"searchmatch\">", "</span>"}),
     score |-> Get(result, "score", 0),
     size |-> Get(result, "size", 0),
     wordcount |-> Get(result, "wordcount", 0),
     timestamp |-> Get(result, "timestamp", "")]

\* search_nonempty without the check of lines 62-63
search_nonempty_unchecked(topic_, results) == Return(results)

\* lines 62-65
search_nonempty(topic_, results) ==
    IF Len(results) = 0
    THEN Raise(ContentFetcherError(<<"No Wikipedia articles found for topic: ">> \o topic_))
    ELSE Return(results)

\* lines 42-65: the try block of search_wikipedia
search_wikipedia_try(topic_, resp) ==
    IF resp.raises # "" THEN Raise(Exc(resp.raises, <<resp.raises>>))
    ELSE IF resp.status_code >= 400 THEN Raise(Exc("HTTPError", <<"HTTPError">>))
    ELSE IF resp.json_raises # ""
    THEN Raise(Exc(resp.json_raises, <<resp.json_raises>>))
    ELSE IF ~resp.json.is_dict THEN Raise(Exc("AttributeError", <<"AttributeError">>))
    ELSE LET found == Get(Get(resp.json.items, "query", EmptyDict), "search", <<>>)
         IN  search_nonempty(topic_, [n \in 1..Len(found) |-> search_result(found[n])])

\* lines 67-72: the handlers of search_wikipedia
search_wikipedia_except(e) ==
    IF e.class \in RequestException
    THEN ContentFetcherError(<<"Error searching Wikipedia: ">> \o e.msg)
    ELSE IF e.class \in JSONDecodeError
    THEN ContentFetcherError(<<"Error parsing Wikipedia search results: ">> \o e.msg)
    ELSE ContentFetcherError(<<"Unexpected error during Wikipedia search: ">> \o e.msg)

search_wikipedia(topic_, resp) ==
    LET try == search_wikipedia_try(topic_, resp)
    IN  IF try.ok THEN try ELSE Raise(search_wikipedia_except(try.err))

ContentCap == 10000
ContentTruncatedMarker ==
    <<".", ".", ".", " ", "[", "c", "o", "n", "t", "e", "n", "t", " ",
      "t", "r", "u", "n", "c", "a", "t", "e", "d", "]">>

\* query.pages[str(pageid)] of a content request for an existing page
PageData(p, extract) ==
    [pageid |-> p, title |-> PageTitle(p), extract |-> extract,
     fullurl |-> <<"https://en.wikipedia.org/wiki/">> \o PageTitle(p),
     categories |-> <<[title |-> <<"Category:", "Physics">>], [title |-> <<"Computing">>]>>,
     touched |-> "2024-01-01T00:00:00Z",
     links |-> <<>>]
PagesJson(p, page_data) == JsonDict([query |-> [pages |-> [x \in {p} |-> page_data]]])

\* data.get("query", {}).get("pages", {}).get(str(pageid), {})
page_data_of(json, p) ==
    Get(Get(Get(json.items, "query", EmptyDict), "pages", EmptyDict), p, EmptyDict)

\* lines 92-99 and 136-143: the request and the page it yields
page_data_try(p, resp) ==
    IF resp.raises # "" THEN Raise(Exc(resp.raises, <<resp.raises>>))
    ELSE IF resp.status_code >= 400 THEN Raise(Exc("HTTPError", <<"HTTPError">>))
    ELSE IF resp.json_raises # ""
    THEN Raise(Exc(resp.json_raises, <<resp.json_raises>>))
    ELSE IF ~resp.json.is_dict THEN Raise(Exc("AttributeError", <<"AttributeError">>))
    ELSE LET page_data == page_data_of(resp.json, p)
         IN  IF DOMAIN page_data = {} \/ "missing" \in DOMAIN page_data
             THEN Raise(ContentFetcherError(
                      <<"Wikipedia article with page ID ", ToString(p), " not found">>))
             ELSE Return(page_data)

\* lines 101-108 and 150-157: the article record
article_of(page_data, content, p) ==
    LET cats == Get(page_data, "categories", <<>>)
    IN  [title |-> Get(page_data, "title", <<>>),
         content |-> content,
         url |-> Get(page_data, "fullurl", <<"https://en.wikipedia.org/?curid=", ToString(p)>>),
         categories |-> [n \in 1..Len(cats) |->
                            Remove(Get(cats[n], "title", <<>>), {"Category:"})],
         last_modified |-> Get(page_data, "touched", ""),
         pageid |-> p]

\* lines 112-117: the handlers of get_article_content
get_article_content_except(e) ==
    IF e.class \in RequestException
    THEN ContentFetcherError(<<"Error fetching Wikipedia article: ">> \o e.msg)
    ELSE IF e.class \in JSONDecodeError
    THEN ContentFetcherError(<<"Error parsing Wikipedia article data: ">> \o e.msg)
    ELSE ContentFetcherError(<<"Unexpected error fetching Wikipedia article: ">> \o e.msg)

\* lines 103: the body of an intro record
intro_content(extract) == extract

get_article_content(p, resp) ==
    LET try == page_data_try(p, resp)
    IN  IF try.ok
        THEN Return(article_of(try.value, intro_content(Get(try.value, "extract", <<>>)), p))
        ELSE Raise(get_article_content_except(try.err))

\* lines 161-166: the handlers of get_full_article_content
get_full_article_content_except(e) ==
    IF e.class \in RequestException
    THEN ContentFetcherError(<<"Error fetching full Wikipedia article: ">> \o e.msg)
    ELSE IF e.class \in JSONDecodeError
    THEN ContentFetcherError(<<"Error parsing full Wikipedia article data: ">> \o e.msg)
    ELSE ContentFetcherError(
             <<"Unexpected error fetching full Wikipedia article: ">> \o e.msg)

\* full_content_of with >= for >
full_content_of_ge(extract) ==
    IF Len(extract) >= ContentCap
    THEN Prefix(extract, ContentCap) \o ContentTruncatedMarker
    ELSE extract

\* lines 145-148: the body of a full record
full_content_of(extract) ==
    IF Len(extract) > ContentCap
    THEN Prefix(extract, ContentCap) \o ContentTruncatedMarker
    ELSE extract

get_full_article_content(p, resp) ==
    LET try == page_data_try(p, resp)
    IN  IF try.ok
        THEN Return(article_of(try.value, full_content_of(Get(try.value, "extract", <<>>)), p))
        ELSE Raise(get_full_article_content_except(try.err))

RelatedLimit == 3

\* The outbound links the remote may list, as tuples of tokens.
LinkTitles ==
    {<<"Qubit">>, <<"Bit">>, <<"Superposition">>, <<"Talk", ":", "Qubit">>,
     <<"Wikipedia">>, <<"Template", " engine">>, <<"Category", " theory">>}
LinkLists ==
    {l \in UNION {[1..n -> LinkTitles] : n \in 0..MaxLinks} :
        \A a, b \in 1..Len(l) : a # b => l[a] # l[b]}
LinksResponses(p) ==
    FailureResponses
        \cup {OkJson(PagesJson(p, [pageid |-> p,
                                   links |-> [n \in 1..Len(l) |-> [title |-> l[n]]]])) :
                 l \in LinkLists}
        \cup {OkJson(PagesJson(p, [pageid |-> p, missing |-> ""]))}

\* lines 181-187: the links request
links_try(p, resp) ==
    IF resp.raises # "" THEN Raise(Exc(resp.raises, <<resp.raises>>))
    ELSE IF resp.status_code >= 400 THEN Raise(Exc("HTTPError", <<"HTTPError">>))
    ELSE IF resp.json_raises # ""
    THEN Raise(Exc(resp.json_raises, <<resp.json_raises>>))
    ELSE IF ~resp.json.is_dict THEN Raise(Exc("AttributeError", <<"AttributeError">>))
    ELSE Return(Get(page_data_of(resp.json, p), "links", <<>>))

\* line 192
link_kept(title) ==
    /\ ~Contains(title, ":")
    /\ ~Contains(title, "Wikipedia")
    /\ ~Contains(title, "Template")
    /\ ~Contains(title, "Category")

\* relevant_links_of without the slice of line 195
relevant_links_of_unsliced(links, limit_) ==
    LET titles == [n \in 1..Len(links) |-> Get(links[n], "title", <<>>)]
    IN  SelectSeq(titles, link_kept)

\* lines 189-195
relevant_links_of(links, limit_) ==
    LET titles == [n \in 1..Len(links) |-> Get(links[n], "title", <<>>)]
    IN  Prefix(SelectSeq(titles, link_kept), limit_)

\* lines 211-216: the handlers of get_related_articles
get_related_articles_except(e) ==
    IF e.class \in RequestException
    THEN ContentFetcherError(<<"Error fetching related articles: ">> \o e.msg)
    ELSE IF e.class \in JSONDecodeError
    THEN ContentFetcherError(<<"Error parsing related articles data: ">> \o e.msg)
    ELSE ContentFetcherError(<<"Unexpected error fetching related articles: ">> \o e.msg)

\* lines 259-262: the handlers of get_topic_content
get_topic_content_except(e) ==
    IF e.class = "ContentFetcherError" THEN e
    ELSE ContentFetcherError(<<"Error fetching topic content: ">> \o e.msg)

\* line 251: article["related_articles"] = ...
with_related(a, ra) ==
    [x \in DOMAIN a \cup {"related_articles"} |->
        IF x = "related_articles" THEN ra ELSE a[x]]

\* selected without the slice
selected_all(results, n) == results
\* selected taking one result more than asked for
selected_one_more(results, n) == Prefix(results, n + 1)

\* line 241: search_results[:num_articles]
selected(results, n) == Prefix(results, n)

\* lines 233-238 (the timestamp, datetime.now(), is left out)
topic_info_of(topic_, results) ==
    [topic |-> topic_, search_term |-> topic_, num_results |-> Len(results)]

-----------------------------------------------------------------------------
(* Remote answers to the wiki fetcher *)

Min(a, b) == IF a < b THEN a ELSE b

\* The search for the topic finds the h best-ranked pages, h within srlimit.
TopicSearchResponses(srlimit) ==
    FailureResponses
        \cup {OkJson(SearchJson([r \in 1..h |-> SearchResult(TopicRanking[r])])) :
                 h \in 0..Min(srlimit, MaxHits)}
        \cup {OkJson(JsonDict(EmptyDict))}

\* The exact-title search finds the page of that title or nothing.
TitleSearchResponses(title) ==
    FailureResponses
        \cup {OkJson(SearchJson(<<>>)), OkJson(SearchJson(<<SearchResult(PageOfTitle(title))>>))}

\* The extract of a page inside a topic run
RunExtract(p) == Text(IF p % 2 = 0 THEN 301 ELSE p % 5)

MissingResponses(p) ==
    FailureResponses
        \cup {OkJson(PagesJson(p, [pageid |-> p, missing |-> ""])), OkJson(JsonDict(EmptyDict))}
ContentResponses(p) ==
    MissingResponses(p) \cup {OkJson(PagesJson(p, PageData(p, RunExtract(p))))}

\* Extracts of a page fetched on its own: none, empty, short and around the cap.
ExtractLens == {0, 1} \cup (ContentCap..(ContentCap + MaxOver))
AnyContentResponses(p) ==
    MissingResponses(p)
        \cup {OkJson(PagesJson(p, PageData(p, Text(n)))) : n \in ExtractLens}
        \cup {OkJson(PagesJson(p, Without(PageData(p, <<>>), "extract")))}

-----------------------------------------------------------------------------
(* service.py *)

ContentGenerationError(msg) == Exc("ContentGenerationError", msg)

\* Answers of the generation service: an exception, a response object
\* without a text attribute, or one whose text is None, empty or a text.
GenResponse(class, has_text, text) == [raises |-> class, has_text |-> has_text, text |-> text]
GenResponses ==
    {GenResponse(c, FALSE, Null) : c \in {"ClientError", "ConnectionError"}}
        \cup {GenResponse("", FALSE, Null), GenResponse("", TRUE, Null),
              GenResponse("", TRUE, Str(<<>>)), GenResponse("", TRUE, Str(<<"<h1>", "Text">>))}

\* generate_content returning the text without the check of lines 22-23
generate_content_unchecked(text, resp) ==
    IF resp.raises # ""
    THEN Raise(ContentGenerationError(<<"Error generating content: ", resp.raises>>))
    ELSE Return(resp.text.s)

\* lines 14-27
generate_content(text, resp) ==
    LET try == IF resp.raises # "" THEN Raise(Exc(resp.raises, <<resp.raises>>))
               ELSE IF ~resp.has_text \/ ~Truthy(resp.text)
               THEN Raise(ContentGenerationError(<<"No content generated from the model">>))
               ELSE Return(resp.text.s)
    IN  IF try.ok THEN try
        ELSE Raise(ContentGenerationError(<<"Error generating content: ">> \o try.err.msg))

\* Selector strings are tuples of characters.
UpperCase == <<"A", "B", "C", "D", "E", "F", "G", "H", "I", "J", "K", "L", "M",
               "N", "O", "P", "Q", "R", "S", "T", "U", "V", "W", "X", "Y", "Z">>
LowerCase == <<"a", "b", "c", "d", "e", "f", "g", "h", "i", "j", "k", "l", "m",
               "n", "o", "p", "q", "r", "s", "t", "u", "v", "w", "x", "y", "z">>
\* str.lower()
lower(str) ==
    [n \in 1..Len(str) |->
        IF \E c \in 1..26 : UpperCase[c] = str[n]
        THEN LowerCase[CHOOSE c \in 1..26 : UpperCase[c] = str[n]]
        ELSE str[n]]
\* str.replace(" ", "_")
replace_spaces(str) == [n \in 1..Len(str) |-> IF str[n] = " " THEN "_" ELSE str[n]]

youtube_script == <<"y", "o", "u", "t", "u", "b", "e", "_", "s", "c", "r", "i", "p", "t">>
instagram_post == <<"i", "n", "s", "t", "a", "g", "r", "a", "m", "_", "p", "o", "s", "t">>
twitter_thread == <<"t", "w", "i", "t", "t", "e", "r", "_", "t", "h", "r", "e", "a", "d">>
blog_post == <<"b", "l", "o", "g", "_", "p", "o", "s", "t">>
newsletter == <<"n", "e", "w", "s", "l", "e", "t", "t", "e", "r">>

\* lines 32-71
content_type_prompts ==
    [key \in {youtube_script, instagram_post, twitter_thread, blog_post, newsletter} |->
        IF key = youtube_script THEN "Create a YouTube script with: ..."
        ELSE IF key = instagram_post THEN "Create an Instagram post with: ..."
        ELSE IF key = twitter_thread THEN "Create a Twitter thread with: ..."
        ELSE IF key = blog_post THEN "Create a blog post with: ..."
        ELSE "Create a newsletter with: ..."]

\* get_content_type_prompt looking the selector up as it stands
get_content_type_prompt_asis(ct) ==
    Get(content_type_prompts, ct,
        "Create well-structured content that covers the main points in an engaging way. ...")

\* lines 73-78
get_content_type_prompt(ct) ==
    Get(content_type_prompts, replace_spaces(lower(ct)),
        "Create well-structured content that covers the main points in an engaging way. ...")

informative == <<"i", "n", "f", "o", "r", "m", "a", "t", "i", "v", "e">>
humorous == <<"h", "u", "m", "o", "r", "o", "u", "s">>
professional == <<"p", "r", "o", "f", "e", "s", "s", "i", "o", "n", "a", "l">>
conversational == <<"c", "o", "n", "v", "e", "r", "s", "a", "t", "i", "o", "n", "a", "l">>
inspirational == <<"i", "n", "s", "p", "i", "r", "a", "t", "i", "o", "n", "a", "l">>

\* lines 83-89
tone_prompts ==
    [key \in {informative, humorous, professional, conversational, inspirational} |->
        IF key = informative THEN "Maintain an objective, educational tone. ..."
        ELSE IF key = humorous THEN "Use wit, jokes, and playful language. ..."
        ELSE IF key = professional THEN "Maintain a formal, business-appropriate tone. ..."
        ELSE IF key = conversational THEN "Write as if having a friendly conversation. ..."
        ELSE "Use motivational language and storytelling. ..."]

\* lines 91-93
get_tone_prompt(tn) ==
    Get(tone_prompts, lower(tn),
        "Write in a balanced, neutral tone that's appropriate for general audiences.")

short == <<"s", "h", "o", "r", "t">>
medium == <<"m", "e", "d", "i", "u", "m">>
long == <<"l", "o", "n", "g">>

\* lines 98-102
length_guidance ==
    [key \in {short, medium, long} |->
        IF key = short THEN "Keep the content concise and to-the-point. Aim for about 250-300 words."
        ELSE IF key = medium THEN "Provide moderate detail. Aim for about 500-700 words."
        ELSE "Offer comprehensive coverage. Aim for about 1000-1500 words."]

\* lines 104-106
get_length_guidance(ln) ==
    Get(length_guidance, lower(ln),
        "Create content of appropriate length for the format, focusing on quality over quantity.")

ExcerptLen == 300

\* lines 127-128 and 134-135: the title and the start of the body of each article
excerpts(arts) ==
    [n \in 1..Len(arts) |->
        [title |-> Get(arts[n], "title", <<>>),
         excerpt |-> Prefix(Get(arts[n], "content", <<>>), ExcerptLen) \o <<"...">>]]

\* lines 112-172: the prompt of transform_topic_content, by its parts
prompt_of(arts, topic_info, ct, tn, ln) ==
    LET main_article == IF Len(arts) > 0 THEN arts[1] ELSE EmptyDict
    IN  [content_type |-> ct,
         content_type_instructions |-> get_content_type_prompt(ct),
         tone |-> tn,
         tone_instructions |-> get_tone_prompt(tn),
         length |-> ln,
         length_instructions |-> get_length_guidance(ln),
         topic |-> topic_info.topic,
         main_title |-> Get(main_article, "title", <<>>),
         main_content |-> Get(main_article, "content", <<>>),
         related_articles_content |-> excerpts(Get(main_article, "related_articles", <<>>)),
         additional_articles_content |-> excerpts(Tail(IF Len(arts) > 0 THEN arts ELSE <<0>>)),
         categories |-> Get(main_article, "categories", <<>>)]

\* lines 177-180: the handlers of transform_topic_content
transform_topic_content_except(e) ==
    IF e.class = "ContentGenerationError" THEN e
    ELSE ContentGenerationError(<<"Error transforming topic content: ">> \o e.msg)

-----------------------------------------------------------------------------
(* run.py and the entry points of topic_fetcher.py *)

Topics == {<<"Quantum computing">>}
EnvTopics == {<<>>, <<" ">>, <<"Quantum computing">>, <<" ", "Quantum computing", " ">>}
\* content_type, tone and length of a run: the defaults of run.py lines 25-27,
\* and values that are keys of no table as they stand
EnvSelectors ==
    {<<blog_post, informative, medium>>,
     <<<<"B", "l", "o", "g", " ", "P", "o", "s", "t">>, <<"S", "a", "d">>, <<>>>>}

\* Selector strings a caller can pass: keys, other spellings of keys, and
\* strings that name no entry
ContentTypes ==
    {blog_post, newsletter,
     <<"B", "l", "o", "g", " ", "P", "o", "s", "t">>,
     <<"b", "l", "o", "g", "-", "p", "o", "s", "t">>,
     <<"p", "o", "d", "c", "a", "s", "t">>, <<>>}
Tones == {informative, humorous, <<"H", "u", "m", "o", "r", "o", "u", "s">>,
          <<"s", "a", "d">>, <<" ", "h", "u", "m", "o", "r", "o", "u", "s">>}
Lengths == {short, long, <<"L", "O", "N", "G">>, <<"e", "p", "i", "c">>, <<>>}

\* str.strip() on tokens
RECURSIVE lstrip(_)
lstrip(t) == IF t # <<>> /\ Head(t) = " " THEN lstrip(Tail(t)) ELSE t
RECURSIVE rstrip(_)
rstrip(t) == IF t # <<>> /\ t[Len(t)] = " " THEN rstrip(SubSeq(t, 1, Len(t) - 1)) ELSE t
strip(t) == rstrip(lstrip(t))

File(name, content) == [name |-> name, content |-> content]

\* run.py lines 86-96: the handlers of main
main_except(e) ==
    IF e.class = "ContentFetcherError"
    THEN File("error.txt", <<"Research Error: ">> \o e.msg
                 \o <<"\n\nPlease try a different topic or check your spelling.">>)
    ELSE IF e.class = "ContentGenerationError"
    THEN File("error.txt", <<"Content Generation Error: ">> \o e.msg
                 \o <<"\n\nPlease try again with different parameters.">>)
    ELSE File("error.txt", <<"Unexpected Error: ">> \o e.msg
                 \o <<"\n\nPlease try again or contact support.">>)

\* TopicRaises skipping the failure, as the loop of get_related_articles does
TopicRaises_skip(e) ==
    /\ pc' = "topic_sleep"
    /\ UNCHANGED <<raised, files, returned, articles>>

\* TopicRaises with main reporting the error and going on to the next step
TopicRaises_goes_on(e) ==
    /\ pc' = IF call = "main" THEN "transform" ELSE "done"
    /\ IF call = "main"
       THEN files' = Append(files, main_except(e)) /\ UNCHANGED raised
       ELSE raised' = e /\ UNCHANGED files
    /\ UNCHANGED <<returned, articles>>

\* get_topic_content raises e to its caller
TopicRaises(e) ==
    /\ pc' = "done"
    /\ IF call = "main"
       THEN files' = Append(files, main_except(e)) /\ UNCHANGED raised
       ELSE raised' = e /\ UNCHANGED files
    /\ UNCHANGED <<returned, articles>>

\* get_topic_content returns (line 257); main goes on at run.py line 39
TopicReturns(arts, results) ==
    /\ articles' = arts
    /\ UNCHANGED raised
    /\ IF call = "main"
       THEN /\ pc' = "transform"
            /\ files' = Append(files, File("status.txt",
                           <<"Found ", ToString(Len(arts)), " articles about ">> \o topic))
            /\ UNCHANGED returned
       ELSE /\ pc' = "done"
            /\ returned' = [articles |-> arts, topic_info |-> topic_info_of(topic, results)]
            /\ UNCHANGED files

\* get_related_articles returns (line 209); get_topic_content sets the key in
\* the dict that article holds (line 251) and appends that dict (line 253)
RelatedReturns(ra) ==
    IF call = "get_related_articles"
    THEN /\ pc' = "done"
         /\ returned' = ra
         /\ UNCHANGED <<raised, files, articles, article>>
    ELSE /\ pc' = "topic_sleep"
         /\ article' = with_related(article, ra)
         /\ articles' = Append(articles, with_related(article, ra))
         /\ UNCHANGED <<raised, returned, files>>

\* get_related_articles raises e to its caller
RelatedRaises(e) ==
    IF call = "get_related_articles"
    THEN /\ pc' = "done"
         /\ raised' = e
         /\ UNCHANGED <<returned, files, articles, article>>
    ELSE TopicRaises(get_topic_content_except(e)) /\ UNCHANGED article

\* line 198: the loop over relevant_links goes to its next title, or ends
RelatedContinue(ra) ==
    /\ related_articles' = ra
    /\ IF k < Len(relevant_links)
       THEN /\ k' = k + 1
            /\ pc' = "related_search"
            /\ UNCHANGED <<raised, returned, files, articles, article>>
       ELSE /\ UNCHANGED k
            /\ RelatedReturns(ra)

\* run.py lines 21-35: main reads its parameters
MainStart ==
    /\ pc = "idle"
    /\ \E t \in EnvTopics, n \in 0..MaxArticles, sel \in EnvSelectors :
          /\ call' = "main"
          /\ content_type' = sel[1]
          /\ tone' = sel[2]
          /\ length' = sel[3]
          /\ topic' = strip(t)
          /\ num_articles' = n
          /\ include_related' = TRUE
          /\ IF strip(t) = <<>>
             THEN /\ files' = Append(files, File("error.txt", <<"Error: Topic is required.">>))
                  /\ pc' = "done"
             ELSE /\ files' = Append(files, File("status.txt",
                                 <<"Researching information about ">> \o strip(t)))
                  /\ pc' = "topic_search"
    /\ UNCHANGED <<log, response, raised, returned, redditVars, search_results, i, article,
                   articles, relatedVars, prompt>>

\* get_topic_content(topic, n, include_related), called on its own
CallGetTopicContent ==
    /\ pc = "idle"
    /\ \E t \in Topics, n \in 0..MaxArticles, r \in BOOLEAN :
          /\ call' = "get_topic_content"
          /\ topic' = t
          /\ num_articles' = n
          /\ include_related' = r
          /\ pc' = "topic_search"
    /\ UNCHANGED <<log, response, raised, returned, redditVars, search_results, i, article,
                   articles, relatedVars, runVars, files>>

\* lines 231-241: the search of get_topic_content
TopicSearch ==
    /\ pc = "topic_search"
    /\ \E resp \in TopicSearchResponses(num_articles + 2) :
          LET r == search_wikipedia(topic, resp)
          IN  /\ log' = Append(log, WikiEvent("search_wikipedia", topic, num_articles + 2,
                                              0, ~r.ok))
              /\ response' = resp
              /\ IF ~r.ok
                 THEN /\ TopicRaises(get_topic_content_except(r.err))
                      /\ UNCHANGED search_results
                 ELSE /\ search_results' = r.value
                      /\ IF Len(selected(r.value, num_articles)) > 0
                         THEN /\ pc' = "topic_fetch"
                              /\ UNCHANGED <<raised, returned, files, articles>>
                         ELSE TopicReturns(<<>>, r.value)
    /\ i' = 0
    /\ UNCHANGED <<call, redditVars, topic, num_articles, include_related, article,
                   relatedVars, runVars>>

\* lines 242-253: the fetch of the i-th selected article
TopicFetch ==
    /\ pc = "topic_fetch"
    /\ LET p == selected(search_results, num_articles)[i + 1].pageid
       IN  \E resp \in ContentResponses(p) :
              LET r == IF i = 0 THEN get_full_article_content(p, resp)
                                ELSE get_article_content(p, resp)
              IN  /\ log' = Append(log,
                        WikiEvent(IF i = 0 THEN "get_full_article_content"
                                           ELSE "get_article_content", <<>>, 0, p, ~r.ok))
                  /\ response' = resp
                  /\ IF ~r.ok
                     THEN /\ TopicRaises(get_topic_content_except(r.err))
                          /\ UNCHANGED <<article, pageid, related_limit>>
                     ELSE IF i = 0 /\ include_related
                     THEN /\ article' = r.value
                          /\ pageid' = p
                          /\ related_limit' = RelatedLimit
                          /\ pc' = "related_links"
                          /\ UNCHANGED <<raised, returned, files, articles>>
                     ELSE /\ articles' = Append(articles, r.value)
                          /\ article' = r.value
                          /\ pc' = "topic_sleep"
                          /\ UNCHANGED <<raised, returned, files, pageid, related_limit>>
    /\ UNCHANGED <<call, redditVars, topic, num_articles, include_related, search_results, i,
                   relevant_links, related_articles, k, runVars>>

\* line 255, and the next round of the loop of line 241 or the return of line 257
TopicSleep ==
    /\ pc = "topic_sleep"
    /\ log' = Append(log, Sleep)
    /\ i' = i + 1
    /\ IF i + 1 < Len(selected(search_results, num_articles))
       THEN /\ pc' = "topic_fetch"
            /\ UNCHANGED <<raised, returned, files, articles>>
       ELSE TopicReturns(articles, search_results)
    /\ UNCHANGED <<call, response, redditVars, topic, num_articles, include_related,
                   search_results, article, relatedVars, runVars>>

\* get_related_articles(p, n), called on its own
CallGetRelatedArticles ==
    /\ pc = "idle"
    /\ \E n \in 0..RelatedLimit :
          /\ call' = "get_related_articles"
          /\ pageid' = TopicRanking[1]
          /\ related_limit' = n
          /\ pc' = "related_links"
    /\ UNCHANGED <<log, response, raised, returned, redditVars, topicVars, articles,
                   relevant_links, related_articles, k, runVars, files>>

\* lines 181-197: the links request of get_related_articles
RelatedLinks ==
    /\ pc = "related_links"
    /\ \E resp \in LinksResponses(pageid) :
          LET r == links_try(pageid, resp)
              links == relevant_links_of(r.value, related_limit)
          IN  /\ log' = Append(log, WikiEvent("get_related_articles", <<>>, 0, pageid, ~r.ok))
              /\ response' = resp
              /\ IF ~r.ok
                 THEN /\ RelatedRaises(get_related_articles_except(r.err))
                      /\ UNCHANGED <<relevant_links, related_articles, k>>
                 ELSE /\ relevant_links' = links
                      /\ related_articles' = <<>>
                      /\ k' = 1
                      /\ IF Len(links) > 0
                         THEN /\ pc' = "related_search"
                              /\ UNCHANGED <<raised, returned, files, articles, article>>
                         ELSE RelatedReturns(<<>>)
    /\ UNCHANGED <<call, redditVars, topic, num_articles, include_related,
                   search_results, i, pageid, related_limit, runVars>>

\* line 200: the exact-title search for the k-th relevant link
RelatedSearch ==
    /\ pc = "related_search"
    /\ LET title == relevant_links[k]
           srsearch == <<"intitle:\"">> \o title \o <<"\"">>
       IN  \E resp \in TitleSearchResponses(title) :
              LET r == search_wikipedia(srsearch, resp)
              IN  /\ log' = Append(log, WikiEvent("search_wikipedia", srsearch, 1, 0, ~r.ok))
                  /\ response' = resp
                  /\ IF r.ok
                     THEN /\ pageid' = r.value[1].pageid
                          /\ pc' = "related_fetch"
                          /\ UNCHANGED <<raised, returned, files, articles, article, related_articles, k>>
                     ELSE /\ RelatedContinue(related_articles)
                          /\ UNCHANGED pageid
    /\ UNCHANGED <<call, redditVars, topic, num_articles, include_related,
                   search_results, i, related_limit, relevant_links, runVars>>

\* lines 203-204: the intro of the page found
RelatedFetch ==
    /\ pc = "related_fetch"
    /\ \E resp \in ContentResponses(pageid) :
          LET r == get_article_content(pageid, resp)
          IN  /\ log' = Append(log, WikiEvent("get_article_content", <<>>, 0, pageid, ~r.ok))
              /\ response' = resp
              /\ IF r.ok
                 THEN /\ related_articles' = Append(related_articles, r.value)
                      /\ pc' = "related_sleep"
                      /\ UNCHANGED <<raised, returned, files, articles, article, k>>
                 ELSE RelatedContinue(related_articles)
    /\ UNCHANGED <<call, redditVars, topic, num_articles, include_related,
                   search_results, i, pageid, related_limit, relevant_links, runVars>>

\* line 205
RelatedSleep ==
    /\ pc = "related_sleep"
    /\ log' = Append(log, Sleep)
    /\ RelatedContinue(related_articles)
    /\ UNCHANGED <<call, response, redditVars, topic, num_articles, include_related,
                   search_results, i, pageid, related_limit,
                   relevant_links, runVars>>

\* run.py line 41 and service.py lines 111-172: the prompt is composed
Transform ==
    /\ pc = "transform"
    /\ prompt' = prompt_of(articles, topic_info_of(topic, search_results),
                           content_type, tone, length)
    /\ pc' = "generate"
    /\ UNCHANGED <<call, log, response, raised, returned, redditVars, topicVars, articles,
                   relatedVars, content_type, tone, length, files>>

\* get_content_type_prompt(ct), called on its own
CallGetContentTypePrompt ==
    /\ pc = "idle"
    /\ \E ct \in ContentTypes :
          /\ call' = "get_content_type_prompt"
          /\ content_type' = ct
          /\ returned' = get_content_type_prompt(ct)
    /\ pc' = "done"
    /\ UNCHANGED <<log, response, raised, redditVars, topicVars, articles, relatedVars,
                   tone, length, prompt, files>>

\* get_tone_prompt(tn), called on its own
CallGetTonePrompt ==
    /\ pc = "idle"
    /\ \E tn \in Tones :
          /\ call' = "get_tone_prompt"
          /\ tone' = tn
          /\ returned' = get_tone_prompt(tn)
    /\ pc' = "done"
    /\ UNCHANGED <<log, response, raised, redditVars, topicVars, articles, relatedVars,
                   content_type, length, prompt, files>>

\* get_length_guidance(ln), called on its own
CallGetLengthGuidance ==
    /\ pc = "idle"
    /\ \E ln \in Lengths :
          /\ call' = "get_length_guidance"
          /\ length' = ln
          /\ returned' = get_length_guidance(ln)
    /\ pc' = "done"
    /\ UNCHANGED <<log, response, raised, redditVars, topicVars, articles, relatedVars,
                   content_type, tone, prompt, files>>

\* transform_topic_content(articles, topic_info, ct, tn, ln), called on its
\* own with no article or one, and the topic_info of that topic
CallTransformTopicContent ==
    /\ pc = "idle"
    /\ \E t \in Topics, ct \in ContentTypes, tn \in Tones, ln \in Lengths,
          arts \in {<<>>, <<article_of(PageData(TopicRanking[1], Text(1)), Text(1),
                                       TopicRanking[1])>>} :
          /\ call' = "transform_topic_content"
          /\ topic' = t
          /\ articles' = arts
          /\ content_type' = ct
          /\ tone' = tn
          /\ length' = ln
    /\ pc' = "transform"
    /\ UNCHANGED <<log, response, raised, returned, redditVars, num_articles,
                   include_related, search_results, i, article, relatedVars, prompt, files>>

\* generate_content(text), called on its own
CallGenerateContent ==
    /\ pc = "idle"
    /\ \E text \in {<<>>, <<"Write a blog post">>} :
          /\ call' = "generate_content"
          /\ prompt' = text
          /\ pc' = "generate"
    /\ UNCHANGED <<log, response, raised, returned, redditVars, topicVars, articles,
                   relatedVars, content_type, tone, length, files>>

\* service.py lines 16-27 and 174-180, run.py lines 43-96: the call of the
\* generation service and what main writes after it
Generate ==
    /\ pc = "generate"
    /\ \E resp \in GenResponses :
          LET r == generate_content(prompt, resp)
          IN  /\ log' = Append(log, WikiEvent("client.models.generate_content",
                                              <<>>, 0, 0, ~r.ok))
              /\ response' = resp
              /\ IF call \in {"generate_content", "transform_topic_content"}
                 THEN /\ raised' = IF call = "generate_content" \/ r.ok THEN r.err
                                    ELSE transform_topic_content_except(r.err)
                      /\ returned' = r.value
                      /\ UNCHANGED files
                 ELSE /\ UNCHANGED <<raised, returned>>
                      /\ IF r.ok
                         THEN files' = files \o
                                  <<File("transformed_content.html", r.value),
                                    File("metadata.json", <<"articles_analyzed: ",
                                                           ToString(Len(articles))>>),
                                    File("summary.txt", <<"Your Content is Ready!">>)>>
                         ELSE files' = Append(files,
                                  main_except(transform_topic_content_except(r.err)))
    /\ pc' = "done"
    /\ UNCHANGED <<call, redditVars, topicVars, articles, relatedVars, runVars>>

\* get_article_content(p), called on its own
CallGetArticleContent ==
    /\ pc = "idle"
    /\ \E resp \in AnyContentResponses(TopicRanking[1]) :
          LET r == get_article_content(TopicRanking[1], resp)
          IN  /\ call' = "get_article_content"
              /\ pageid' = TopicRanking[1]
              /\ log' = Append(log, WikiEvent("get_article_content", <<>>, 0,
                                              TopicRanking[1], ~r.ok))
              /\ response' = resp
              /\ raised' = r.err
              /\ returned' = r.value
              /\ pc' = "done"
    /\ UNCHANGED <<redditVars, topicVars, articles, related_limit, relevant_links,
                   related_articles, k, runVars, files>>

\* get_full_article_content(p), called on its own
CallGetFullArticleContent ==
    /\ pc = "idle"
    /\ \E resp \in AnyContentResponses(TopicRanking[1]) :
          LET r == get_full_article_content(TopicRanking[1], resp)
          IN  /\ call' = "get_full_article_content"
              /\ pageid' = TopicRanking[1]
              /\ log' = Append(log, WikiEvent("get_full_article_content", <<>>, 0,
                                              TopicRanking[1], ~r.ok))
              /\ response' = resp
              /\ raised' = r.err
              /\ returned' = r.value
              /\ pc' = "done"
    /\ UNCHANGED <<redditVars, topicVars, articles, related_limit, relevant_links,
                   related_articles, k, runVars, files>>

NextTopic ==
    \/ CallGetArticleContent
    \/ CallGetFullArticleContent
    \/ Transform
    \/ CallGenerateContent
    \/ Generate
    \/ CallGetContentTypePrompt
    \/ CallGetTonePrompt
    \/ CallGetLengthGuidance
    \/ CallTransformTopicContent
    \/ MainStart
    \/ CallGetTopicContent
    \/ TopicSearch
    \/ TopicFetch
    \/ TopicSleep
    \/ CallGetRelatedArticles
    \/ RelatedLinks
    \/ RelatedSearch
    \/ RelatedFetch
    \/ RelatedSleep

Spec == Init /\ [][NextTopic]_vars

-----------------------------------------------------------------------------
(* Properties of topic_fetcher.py and service.py, checked under Spec *)

Range(f) == {f[x] : x \in DOMAIN f}
RunCalls == {"main", "get_topic_content"}
Events(fns) == {j \in 1..Len(log) : log[j].fn \in fns}

\* Requests for the pages the topic search ranked, and all article-detail requests
PrimaryFetches ==
    {j \in Events({"get_full_article_content", "get_article_content"}) :
        log[j].pageids \in Range(TopicRanking)}
DetailRequests ==
    Events({"get_full_article_content", "get_article_content", "get_related_articles"})

IsNoResults(e, topic_) ==
    /\ e.class = "ContentFetcherError"
    /\ EndsWith(e.msg, <<"No Wikipedia articles found for topic: ">> \o topic_)

\* The one request so far was the topic search, answered with no hit.
TopicSearchAnsweredEmpty ==
    /\ call \in RunCalls
    /\ Len(log) = 1
    /\ response.raises = "" /\ response.status_code = 200
    /\ response.json_raises = "" /\ response.json.is_dict
    /\ Len(Get(Get(response.json.items, "query", EmptyDict), "search", <<>>)) = 0

\* C3: when the search for the topic returns zero hits, get_topic_content
\* raises the no-articles-found error (main writes it to error.txt) and no
\* article-detail request is made in that run.
C3_NoHitsNoFetch ==
    TopicSearchAnsweredEmpty =>
        /\ pc = "done"
        /\ returned = NoValue
        /\ DetailRequests = {}
        /\ call = "get_topic_content" => IsNoResults(raised, topic)
        /\ call = "main" =>
               /\ files[Len(files)].name = "error.txt"
               /\ files[Len(files)].content[1] = "Research Error: "
               /\ Events({"client.models.generate_content"}) = {}

C3_Witness ==
    /\ TopicSearchAnsweredEmpty
    /\ call = "get_topic_content"
    /\ num_articles = 3
    /\ raised.class = "ContentFetcherError"

\* The run's search succeeded and none of its primary fetches, nor the links
\* request of the first article, failed.
AllFetchesSucceeded ==
    /\ Len(log) >= 1 /\ ~log[1].raised
    /\ \A j \in PrimaryFetches \cup Events({"get_related_articles"}) : ~log[j].raised

IsPrimary(e) ==
    /\ e.fn \in {"get_full_article_content", "get_article_content"}
    /\ e.pageids \in Range(TopicRanking)

\* C4: get_topic_content(topic, n, include_related) with n >= 1, a search
\* (asked with limit n + 2) that returns at least n hits and no failing
\* fetch returns exactly n records in rank order; the first is fetched with
\* get_full_article_content and has a related_articles field exactly when
\* include_related is true, the later ones are fetched with
\* get_article_content and have no such field.
C4_TopicContentShape ==
    /\ call = "get_topic_content" /\ pc = "done" /\ AllFetchesSucceeded
    /\ num_articles >= 1 /\ Len(search_results) >= num_articles
    =>
    LET fetches == SelectSeq(log, IsPrimary)
    IN  /\ raised = NoError
        /\ returned.articles = articles
        /\ log[1].srlimit = num_articles + 2
        /\ Len(articles) = num_articles
        /\ Len(fetches) = num_articles
        /\ \A j \in 1..num_articles :
              /\ articles[j].pageid = search_results[j].pageid
              /\ fetches[j].pageids = search_results[j].pageid
              /\ fetches[j].fn = IF j = 1 THEN "get_full_article_content"
                                          ELSE "get_article_content"
              /\ "related_articles" \in DOMAIN articles[j] <=> (j = 1 /\ include_related)

C4_Witness ==
    /\ call = "get_topic_content" /\ pc = "done" /\ raised = NoError
    /\ num_articles = 3 /\ include_related /\ Len(search_results) = 5
    /\ Len(returned.articles) = 3
    /\ Len(relevant_links) = 3
    /\ returned.articles[1].related_articles = <<>>

\* C5: a failing get_full_article_content or get_article_content for one of
\* the selected articles ends get_topic_content with an error: it is the last
\* request of the run, no record list is returned and main generates nothing.
C5_PrimaryFailureIsFatal ==
    call \in RunCalls =>
        \A j \in PrimaryFetches :
            log[j].raised =>
                /\ j = Len(log)
                /\ pc = "done"
                /\ returned = NoValue
                /\ call = "get_topic_content" => raised.class = "ContentFetcherError"
                /\ call = "main" => files[Len(files)].name = "error.txt"

C5_Witness ==
    /\ call = "get_topic_content" /\ pc = "done"
    /\ Len(articles) = 1 /\ num_articles = 3
    /\ log[Len(log)].fn = "get_article_content" /\ log[Len(log)].raised
    /\ log[Len(log)].pageids = TopicRanking[2]
    /\ returned = NoValue

\* The requests of the loop over relevant_links
RelatedSearches == {j \in Events({"search_wikipedia"}) : log[j].srlimit = 1}
RelatedIntros ==
    {j \in Events({"get_article_content"}) : log[j].pageids \notin Range(TopicRanking)}
FailedCandidates ==
    Cardinality({j \in RelatedSearches \cup RelatedIntros : log[j].raised})
LinksObtained == \E j \in Events({"get_related_articles"}) : ~log[j].raised

\* C6: once get_related_articles has the links, a failing exact-title search
\* or intro fetch of a candidate does not end the loop or the call: the
\* candidate is skipped, every candidate is searched for, and the list
\* returned holds one record for each candidate that did not fail, at most
\* limit minus the number of failed candidates.
C6_RelatedFailuresSkipped ==
    /\ call = "get_related_articles" /\ LinksObtained => raised = NoError
    /\ \A j \in RelatedSearches \cup RelatedIntros :
          log[j].raised /\ j = Len(log) =>
              /\ raised = NoError
              /\ pc \in {"related_search", IF call = "get_related_articles"
                                           THEN "done" ELSE "topic_sleep"}
    /\ call = "get_related_articles" /\ pc = "done" /\ LinksObtained =>
          /\ Cardinality(RelatedSearches) = Len(relevant_links)
          /\ Len(returned) = Len(relevant_links) - FailedCandidates
          /\ Len(returned) <= related_limit - FailedCandidates
    /\ call \in RunCalls /\ include_related /\ Len(articles) >= 1 =>
          /\ Cardinality(RelatedSearches) = Len(relevant_links)
          /\ Len(articles[1].related_articles) = Len(relevant_links) - FailedCandidates
          /\ Len(articles[1].related_articles) <= RelatedLimit - FailedCandidates

C6_Witness ==
    /\ call = "get_related_articles" /\ pc = "done"
    /\ related_limit = 3 /\ Len(relevant_links) = 3
    /\ FailedCandidates = 1
    /\ log[2].fn = "search_wikipedia" /\ log[2].raised
    /\ Len(returned) = 2

GenEvents == Events({"client.models.generate_content"})
Usable(resp) ==
    resp.raises = "" /\ resp.has_text /\ ~resp.text.null /\ Len(resp.text.s) > 0

\* C8: generate_content calls the generation service exactly once and either
\* returns the service's text, which is then not empty, or raises
\* ContentGenerationError (no text attribute, no text, empty text, or an
\* error of the service); main never writes an empty generated text.
C8_GenerateOnceNonEmpty ==
    /\ Cardinality(GenEvents) <= 1
    /\ call = "generate_content" /\ pc = "done" =>
          /\ Cardinality(GenEvents) = 1
          /\ IF Usable(response)
             THEN raised = NoError /\ returned = response.text.s /\ Len(returned) > 0
             ELSE raised.class = "ContentGenerationError" /\ returned = NoValue
    /\ \A f \in Range(files) :
          f.name = "transformed_content.html" =>
              Usable(response) /\ f.content = response.text.s

C8_Witness ==
    /\ call = "generate_content" /\ pc = "done"
    /\ response.has_text /\ response.text = Str(<<>>)
    /\ raised.class = "ContentGenerationError"

\* The extract the remote returned for the page asked for
UpstreamExtract == Get(page_data_of(response.json, pageid), "extract", <<>>)

\* C10: the body returned by get_full_article_content is the extract when
\* that has at most 10000 characters and its first 10000 characters and the
\* marker otherwise, so at most 10000 characters plus the marker; the body
\* returned by get_article_content is the extract as the remote returned it.
C10_BodyCap ==
    /\ call = "get_full_article_content" /\ pc = "done" /\ raised = NoError =>
          /\ returned.content =
                 IF Len(UpstreamExtract) <= 10000 THEN UpstreamExtract
                 ELSE SubSeq(UpstreamExtract, 1, 10000) \o ContentTruncatedMarker
          /\ Len(returned.content) <= 10000 + Len(ContentTruncatedMarker)
    /\ call = "get_article_content" /\ pc = "done" /\ raised = NoError =>
          returned.content = UpstreamExtract

C10_Witness ==
    /\ call = "get_full_article_content" /\ pc = "done" /\ raised = NoError
    /\ Len(UpstreamExtract) = 10001
    /\ Len(returned.content) = 10023

-----------------------------------------------------------------------------
(* Properties of the composer lookups of service.py, checked under Spec *)

DefaultContentTypePrompt ==
    "Create well-structured content that covers the main points in an engaging way. ..."
DefaultTonePrompt ==
    "Write in a balanced, neutral tone that's appropriate for general audiences."
DefaultLengthGuidance ==
    "Create content of appropriate length for the format, focusing on quality over quantity."

\* The entry of the table under the selector as it stands, else the default
EntryOf(table, selector, default) ==
    IF selector \in DOMAIN table THEN table[selector] ELSE default

\* selector spells key when case is ignored (and, where spaces is set, a
\* space stands for an underscore)
Spells(selector, key, spaces) ==
    /\ Len(selector) = Len(key)
    /\ \A n \in 1..Len(selector) :
          \/ selector[n] = key[n]
          \/ \E c \in 1..26 : UpperCase[c] = selector[n] /\ LowerCase[c] = key[n]
          \/ spaces /\ selector[n] = " " /\ key[n] = "_"
EntrySpelled(table, selector, spaces, default) ==
    IF \E key \in DOMAIN table : Spells(selector, key, spaces)
    THEN table[CHOOSE key \in DOMAIN table : Spells(selector, key, spaces)]
    ELSE default

\* A prompt has just been composed from content_type, tone and length.
Composed == call \in {"main", "transform_topic_content"} /\ pc = "generate"

\* C11 as stated: each lookup returns the entry of a selector that is a key
\* of its table and the table's default for every other selector string,
\* never raising, whatever the other two selectors are.
C11_AsStated ==
    /\ call = "get_content_type_prompt" /\ pc = "done" =>
          /\ raised = NoError
          /\ returned = EntryOf(content_type_prompts, content_type, DefaultContentTypePrompt)
    /\ call = "get_tone_prompt" /\ pc = "done" =>
          /\ raised = NoError
          /\ returned = EntryOf(tone_prompts, tone, DefaultTonePrompt)
    /\ call = "get_length_guidance" /\ pc = "done" =>
          /\ raised = NoError
          /\ returned = EntryOf(length_guidance, length, DefaultLengthGuidance)
    /\ Composed =>
          /\ prompt.content_type_instructions =
                 EntryOf(content_type_prompts, content_type, DefaultContentTypePrompt)
          /\ prompt.tone_instructions = EntryOf(tone_prompts, tone, DefaultTonePrompt)
          /\ prompt.length_instructions =
                 EntryOf(length_guidance, length, DefaultLengthGuidance)

\* C11: each lookup never raises and returns the entry of the key that the
\* selector spells when case is ignored (for the content type a space also
\* stands for an underscore), and the table's default when it spells no key;
\* in a composed prompt each of the three instructions is the one of its own
\* selector, whatever the other two selectors are.
C11_LookupsTotal ==
    /\ call = "get_content_type_prompt" /\ pc = "done" =>
          /\ raised = NoError
          /\ returned = EntrySpelled(content_type_prompts, content_type, TRUE,
                                     DefaultContentTypePrompt)
    /\ call = "get_tone_prompt" /\ pc = "done" =>
          /\ raised = NoError
          /\ returned = EntrySpelled(tone_prompts, tone, FALSE, DefaultTonePrompt)
    /\ call = "get_length_guidance" /\ pc = "done" =>
          /\ raised = NoError
          /\ returned = EntrySpelled(length_guidance, length, FALSE, DefaultLengthGuidance)
    /\ Composed =>
          /\ raised = NoError
          /\ prompt.content_type_instructions =
                 EntrySpelled(content_type_prompts, content_type, TRUE,
                              DefaultContentTypePrompt)
          /\ prompt.tone_instructions =
                 EntrySpelled(tone_prompts, tone, FALSE, DefaultTonePrompt)
          /\ prompt.length_instructions =
                 EntrySpelled(length_guidance, length, FALSE, DefaultLengthGuidance)

C11_Witness ==
    /\ call = "transform_topic_content" /\ pc = "generate"
    /\ content_type = <<"B", "l", "o", "g", " ", "P", "o", "s", "t">>
    /\ tone = <<"s", "a", "d">>
    /\ length = <<"L", "O", "N", "G">>
    /\ prompt.content_type_instructions = content_type_prompts[blog_post]
    /\ prompt.tone_instructions = DefaultTonePrompt
    /\ prompt.length_instructions = length_guidance[long]

-----------------------------------------------------------------------------
(* Pacing and order of the remote calls, checked under Spec *)

\* The remote calls of the loop over relevant_links, and the pacing delays
LoopCalls == RelatedSearches \cup RelatedIntros
Delays == Events({"time.sleep"})

\* C12: inside the loop over the related links a pacing delay lies between
\* every two consecutive remote calls: between a link's exact-title search
\* and its intro fetch, and between the last call for one link and the first
\* call for the next, also when the earlier link failed and was skipped.
C12_DelayBetweenLoopCalls ==
    \A a \in LoopCalls, b \in LoopCalls :
        a < b => \E m \in Delays : a < m /\ m < b

\* The fetch of the run failed: its search, one of its primary fetches or
\* the links request of its first article raised.
FetchFailed ==
    \/ Len(log) >= 1 /\ log[1].fn = "search_wikipedia" /\ log[1].raised
    \/ \E j \in PrimaryFetches \cup Events({"get_related_articles"}) : log[j].raised
FetchReturned ==
    /\ ~FetchFailed
    /\ Len(log) >= 1 /\ log[1].fn = "search_wikipedia"
    /\ Len(articles) = Min(num_articles, Len(search_results))
    /\ \E n \in 1..Len(files) :
          /\ files[n].name = "status.txt"
          /\ files[n].content[1] = "Found "
HasGenerated == \E f \in Range(files) : f.name = "transformed_content.html"

\* C13: in one run of main the generation service is called at most once,
\* as the last remote call, only after get_topic_content has returned
\* and the prompt has been composed from what it returned; when the fetch
\* fails or the topic is empty the generation service is never called and
\* no generated content is written.
C13_FetchComposeGenerate ==
    call = "main" =>
        /\ Cardinality(GenEvents) <= 1
        /\ \A g \in GenEvents :
              /\ g = Len(log)
              /\ FetchReturned
              /\ prompt.topic = topic
              /\ prompt.main_content =
                     IF Len(articles) > 0 THEN articles[1].content ELSE <<>>
        /\ FetchFailed \/ topic = <<>> => GenEvents = {} /\ ~HasGenerated
        /\ topic = <<>> => log = <<>> /\ pc = "done"
        /\ HasGenerated => GenEvents # {} /\ pc = "done"

C13_Witness ==
    /\ call = "main" /\ pc = "done"
    /\ GenEvents = {Len(log)}
    /\ Len(articles) = 2
    /\ Len(articles[1].related_articles) = 1
    /\ HasGenerated
    /\ files[Len(files)].name = "summary.txt"

-----------------------------------------------------------------------------
(* The number of records of get_topic_content, checked under Spec *)

\* The topic search was answered with a list of hits, empty or not.
SearchAnswered ==
    \/ TopicSearchAnsweredEmpty
    \/ Len(log) >= 1 /\ log[1].fn = "search_wikipedia" /\ ~log[1].raised
NoFetchFailed ==
    \A j \in PrimaryFetches \cup Events({"get_related_articles"}) : ~log[j].raised

\* C14 as stated: when every per-article fetch succeeds, get_topic_content
\* with num_articles >= 0 returns exactly min(num_articles, number of hits)
\* records, whatever the number of hits, without any error.
C14_AsStated ==
    call = "get_topic_content" /\ pc = "done" /\ SearchAnswered /\ NoFetchFailed =>
        /\ raised = NoError
        /\ returned # NoValue
        /\ Len(articles) = Min(num_articles, Len(search_results))
        /\ num_articles = 0 => DetailRequests = {}

\* C14: when the search returns at least one hit and every per-article
\* fetch succeeds, get_topic_content with num_articles >= 0 returns without
\* error exactly min(num_articles, number of hits) records, the first hits
\* in rank order and never more than num_articles; with num_articles = 0 it
\* returns an empty list and makes no article-detail request.  (A search
\* with no hit raises, whatever num_articles is.)
C14_RecordCount ==
    /\ call = "get_topic_content" /\ pc = "done" /\ NoFetchFailed
       /\ Len(log) >= 1 /\ ~log[1].raised
       =>
        /\ raised = NoError
        /\ Len(search_results) >= 1
        /\ returned.articles = articles
        /\ returned.topic_info.num_results = Len(search_results)
        /\ Len(articles) = Min(num_articles, Len(search_results))
        /\ Len(articles) <= num_articles
        /\ \A j \in 1..Len(articles) : articles[j].pageid = search_results[j].pageid
        /\ num_articles = 0 => DetailRequests = {} /\ Len(log) = 1
    /\ call = "get_topic_content" /\ TopicSearchAnsweredEmpty =>
        raised.class = "ContentFetcherError" /\ returned = NoValue

C14_Witness ==
    /\ call = "get_topic_content" /\ pc = "done" /\ raised = NoError
    /\ num_articles = 3
    /\ Len(search_results) = 2
    /\ Len(returned.articles) = 2
    /\ log[1].srlimit = 5

\* get_topic_content(topic, 0) with a search that has hits
C14_WitnessNone ==
    /\ call = "get_topic_content" /\ pc = "done" /\ raised = NoError
    /\ num_articles = 0
    /\ Len(search_results) = 2
    /\ returned.articles = <<>>
    /\ Len(log) = 1

=============================================================================
